---- MODULE Spec2Model ----
(***************************************************************************)
(* A model of brave_search_mcp_server.py: the session store, the four      *)
(* tools (perform_web_search, rate_search_result, save_search_results,     *)
(* list_saved_results) and the JSON artifacts they write and read.         *)
(*                                                                         *)
(* Python values are modelled as follows.                                  *)
(*   str            a sequence of one-character strings                    *)
(*   Optional[T]    a set with at most one element: {} is None, {x} is x   *)
(*   a JSON value   a tagged record, see JNull .. JObj                     *)
(*   a dict the tools return   a record with the dict's keys               *)
(***************************************************************************)
EXTENDS Integers, Sequences, FiniteSets, TLC

(***************************************************************************)
(* Characters                                                              *)
(***************************************************************************)
QUOTE == "\""
BSLASH == "\\"
NL == "\n"
\* one non-ASCII letter (e with acute accent), named by its code point
EAcute == "U+00E9"

\* the printable ASCII characters, code points 32 .. 126, in order (the
\* grave accent, which a TLA+ string cannot hold, by its code point)
Ascii ==
  <<
     " ", "!", "\"", "#", "$", "%", "&", "'", "(", ")", "*", "+",
     ",", "-", ".", "/", "0", "1", "2", "3", "4", "5", "6", "7",
     "8", "9", ":", ";", "<", "=", ">", "?", "@", "A", "B", "C",
     "D", "E", "F", "G", "H", "I", "J", "K", "L", "M", "N", "O",
     "P", "Q", "R", "S", "T", "U", "V", "W", "X", "Y", "Z", "[",
     "\\", "]", "^", "_", "U+0060", "a", "b", "c", "d", "e", "f", "g",
     "h", "i", "j", "k", "l", "m", "n", "o", "p", "q", "r", "s",
     "t", "u", "v", "w", "x", "y", "z", "{", "|", "}", "~"
  >>

OrdTable ==
  [c \in {Ascii[i] : i \in 1..Len(Ascii)} |->
      31 + (CHOOSE i \in 1..Len(Ascii) : Ascii[i] = c)]

\* ord(c)
Ord(c) == IF c = NL THEN 10 ELSE IF c = EAcute THEN 233 ELSE OrdTable[c]

\* str.isalnum() of one character (Unicode aware: EAcute is a letter)
isalnum(c) ==
  \/ c = EAcute
  \/ /\ c # NL
     /\ \/ Ord(c) \in 48..57
        \/ Ord(c) \in 65..90
        \/ Ord(c) \in 97..122

Digit(d) == Ascii[17 + d]
IsDigit(c) == c # NL /\ c # EAcute /\ Ord(c) \in 48..57
DigitVal(c) == Ord(c) - 48

\* str(n) of an integer
RECURSIVE NatRepr(_)
NatRepr(n) ==
  IF n < 10 THEN <<Digit(n)>> ELSE Append(NatRepr(n \div 10), Digit(n % 10))

IntRepr(n) == IF n < 0 THEN <<"-">> \o NatRepr(-n) ELSE NatRepr(n)

\* a < b on Python strings: lexicographic on code points
RECURSIVE StrLessFrom(_, _, _)
StrLessFrom(a, b, i) ==
  IF i > Len(b) THEN FALSE
  ELSE IF i > Len(a) THEN TRUE
  ELSE IF a[i] = b[i] THEN StrLessFrom(a, b, i + 1)
  ELSE Ord(a[i]) < Ord(b[i])

StrLess(a, b) == StrLessFrom(a, b, 1)

(***************************************************************************)
(* String constants of the program                                         *)
(***************************************************************************)
K_title == <<"t", "i", "t", "l", "e">>
K_url == <<"u", "r", "l">>
K_description == <<"d", "e", "s", "c", "r", "i", "p", "t", "i", "o", "n">>
K_rating == <<"r", "a", "t", "i", "n", "g">>
K_rated_at == <<"r", "a", "t", "e", "d", "_", "a", "t">>
K_metadata == <<"m", "e", "t", "a", "d", "a", "t", "a">>
K_session_id == <<"s", "e", "s", "s", "i", "o", "n", "_", "i", "d">>
K_saved_at == <<"s", "a", "v", "e", "d", "_", "a", "t">>
K_total_results ==
  <<"t", "o", "t", "a", "l", "_", "r", "e", "s", "u", "l", "t", "s">>
K_rated_results ==
  <<"r", "a", "t", "e", "d", "_", "r", "e", "s", "u", "l", "t", "s">>
K_average_rating ==
  <<"a", "v", "e", "r", "a", "g", "e", "_", "r", "a", "t", "i", "n", "g">>
K_results == <<"r", "e", "s", "u", "l", "t", "s">>
K_null == <<"n", "u", "l", "l">>
K_true == <<"t", "r", "u", "e">>
K_false == <<"f", "a", "l", "s", "e">>
K_unknown == <<"u", "n", "k", "n", "o", "w", "n">>

(***************************************************************************)
(* JSON values                                                             *)
(***************************************************************************)
JNull == [t |-> "null"]
JBool(b) == [t |-> "bool", b |-> b]
JInt(n) == [t |-> "int", n |-> n]
\* a float written ip.fd, fd its fraction digits without trailing zeros
\* (one digit at least), as repr() prints it
JFloat(ip, fd) == [t |-> "float", ip |-> ip, fd |-> fd]
JStr(s) == [t |-> "str", s |-> s]
JArr(a) == [t |-> "arr", a |-> a]
\* a dict: its keys in insertion order and the values beside them
JObj(k, v) == [t |-> "obj", k |-> k, v |-> v]

OptInt(o) == IF o = {} THEN JNull ELSE JInt(CHOOSE x \in o : TRUE)
OptStr(o) == IF o = {} THEN JNull ELSE JStr(CHOOSE x \in o : TRUE)

HasKey(obj, key) == \E i \in 1..Len(obj.k) : obj.k[i] = key

\* obj[key]: the last occurrence wins, as in a Python dict
Lookup(obj, key) ==
  LET idx == {i \in 1..Len(obj.k) : obj.k[i] = key}
  IN  obj.v[CHOOSE i \in idx : \A j \in idx : j <= i]

(***************************************************************************)
(* json.dumps(value, indent=2, ensure_ascii=False)                         *)
(***************************************************************************)
\* no character escaped
EscapeChar_raw(c) == <<c>>

EscapeChar(c) ==
  IF c = QUOTE THEN <<BSLASH, QUOTE>>
  ELSE IF c = BSLASH THEN <<BSLASH, BSLASH>>
  ELSE IF c = NL THEN <<BSLASH, "n">>
  ELSE <<c>>

RECURSIVE EscapeFrom(_, _)
EscapeFrom(s, i) ==
  IF i > Len(s) THEN <<>> ELSE EscapeChar(s[i]) \o EscapeFrom(s, i + 1)

encode_basestring(s) == <<QUOTE>> \o EscapeFrom(s, 1) \o <<QUOTE>>

FloatRepr(v) ==
  NatRepr(v.ip) \o <<".">> \o [i \in 1..Len(v.fd) |-> Digit(v.fd[i])]

NewlineIndent(level) == <<NL>> \o [i \in 1..(2 * level) |-> " "]

RECURSIVE dumps_value(_, _)
RECURSIVE dumps_items(_, _, _)
RECURSIVE dumps_members(_, _, _)
dumps_value(v, level) ==
  CASE v.t = "null" -> K_null
    [] v.t = "bool" -> (IF v.b THEN K_true ELSE K_false)
    [] v.t = "int" -> IntRepr(v.n)
    [] v.t = "float" -> FloatRepr(v)
    [] v.t = "str" -> encode_basestring(v.s)
    [] v.t = "arr" ->
         (IF v.a = <<>> THEN <<"[", "]">>
          ELSE <<"[">> \o dumps_items(v.a, 1, level + 1)
                 \o NewlineIndent(level) \o <<"]">>)
    [] v.t = "obj" ->
         (IF v.k = <<>> THEN <<"{", "}">>
          ELSE <<"{">> \o dumps_members(v, 1, level + 1)
                 \o NewlineIndent(level) \o <<"}">>)

dumps_items(a, i, level) ==
  NewlineIndent(level) \o dumps_value(a[i], level)
    \o (IF i < Len(a) THEN <<",">> \o dumps_items(a, i + 1, level) ELSE <<>>)

dumps_members(o, i, level) ==
  NewlineIndent(level) \o encode_basestring(o.k[i]) \o <<":", " ">>
    \o dumps_value(o.v[i], level)
    \o (IF i < Len(o.k) THEN <<",">> \o dumps_members(o, i + 1, level)
        ELSE <<>>)

json_dumps(v) == dumps_value(v, 0)

(***************************************************************************)
(* json.loads(text): [ok |-> FALSE] stands for JSONDecodeError             *)
(***************************************************************************)
ParseFail(i) == [ok |-> FALSE, v |-> JNull, i |-> i]
ParseOk(v, i) == [ok |-> TRUE, v |-> v, i |-> i]

IsWs(c) == c \in {" ", NL}

RECURSIVE SkipWs(_, _)
SkipWs(s, i) == IF i <= Len(s) /\ IsWs(s[i]) THEN SkipWs(s, i + 1) ELSE i

HasAt(s, i, lit) ==
  /\ i + Len(lit) - 1 <= Len(s)
  /\ SubSeq(s, i, i + Len(lit) - 1) = lit

\* the index after the run of digits that starts at i
RECURSIVE ScanDigits(_, _)
ScanDigits(s, i) ==
  IF i <= Len(s) /\ IsDigit(s[i]) THEN ScanDigits(s, i + 1) ELSE i

\* the number written by the digits s[i .. j-1]
RECURSIVE DigitsValue(_, _, _)
DigitsValue(s, i, j) ==
  IF j <= i THEN 0 ELSE 10 * DigitsValue(s, i, j - 1) + DigitVal(s[j - 1])

\* the fraction digits s[i .. j-1] without their trailing zeros
RECURSIVE FracDigits(_, _, _)
FracDigits(s, i, j) ==
  IF j - i > 1 /\ s[j - 1] = "0" THEN FracDigits(s, i, j - 1)
  ELSE [k \in 1..(j - i) |-> DigitVal(s[i + k - 1])]

\* a non-negative number at i (s[i] is a digit): 0 | [1-9][0-9]*, then
\* an optional fraction
scan_number(s, i) ==
  LET j == IF s[i] = "0" THEN i + 1 ELSE ScanDigits(s, i)
      frac == j <= Len(s) /\ s[j] = "."
      k == IF frac THEN ScanDigits(s, j + 1) ELSE j
  IN  IF frac
      THEN IF k = j + 1 THEN ParseFail(i)
           ELSE ParseOk(JFloat(DigitsValue(s, i, j), FracDigits(s, j + 1, k)), k)
      ELSE ParseOk(JInt(DigitsValue(s, i, j)), j)

\* the string whose opening quote is at i - 1
RECURSIVE scan_string(_, _, _)
scan_string(s, i, acc) ==
  IF i > Len(s) THEN ParseFail(i)
  ELSE IF s[i] = QUOTE THEN ParseOk(JStr(acc), i + 1)
  ELSE IF s[i] = NL THEN ParseFail(i)
  ELSE IF s[i] = BSLASH
  THEN IF i + 1 > Len(s) THEN ParseFail(i)
       ELSE IF s[i + 1] \in {QUOTE, BSLASH, "/"}
       THEN scan_string(s, i + 2, Append(acc, s[i + 1]))
       ELSE IF s[i + 1] = "n" THEN scan_string(s, i + 2, Append(acc, NL))
       ELSE ParseFail(i)
  ELSE scan_string(s, i + 1, Append(acc, s[i]))

\* The parser, one operator for each point of the text it stands at.
RECURSIVE parse_value(_, _)
RECURSIVE parse_elements(_, _, _)
RECURSIVE parse_members(_, _, _, _)

\* after an element r of an array: a comma and the next one, or the end
element_next(s, r, j, acc) ==
  IF j > Len(s) THEN ParseFail(j)
  ELSE IF s[j] = "," THEN parse_elements(s, j + 1, Append(acc, r.v))
  ELSE IF s[j] = "]" THEN ParseOk(JArr(Append(acc, r.v)), j + 1)
  ELSE ParseFail(j)

element_parsed(s, r, acc) ==
  IF ~r.ok THEN ParseFail(r.i) ELSE element_next(s, r, SkipWs(s, r.i), acc)

parse_elements(s, i, acc) == element_parsed(s, parse_value(s, i), acc)

\* after a member key: val of an object: a comma and the next one, or the end
member_next(s, key, val, j, ks, vs) ==
  IF j > Len(s) THEN ParseFail(j)
  ELSE IF s[j] = ","
  THEN parse_members(s, j + 1, Append(ks, key.v.s), Append(vs, val.v))
  ELSE IF s[j] = "}"
  THEN ParseOk(JObj(Append(ks, key.v.s), Append(vs, val.v)), j + 1)
  ELSE ParseFail(j)

member_parsed(s, key, val, ks, vs) ==
  IF ~val.ok THEN ParseFail(val.i)
  ELSE member_next(s, key, val, SkipWs(s, val.i), ks, vs)

member_colon(s, key, c, ks, vs) ==
  IF c <= Len(s) /\ s[c] = ":"
  THEN member_parsed(s, key, parse_value(s, c + 1), ks, vs)
  ELSE ParseFail(c)

member_key(s, key, ks, vs) ==
  IF ~key.ok THEN ParseFail(key.i)
  ELSE member_colon(s, key, SkipWs(s, key.i), ks, vs)

member_at(s, i, ks, vs) ==
  IF i <= Len(s) /\ s[i] = QUOTE
  THEN member_key(s, scan_string(s, i + 1, <<>>), ks, vs)
  ELSE ParseFail(i)

parse_members(s, i0, ks, vs) == member_at(s, SkipWs(s, i0), ks, vs)

\* after "{"
object_at(s, j) ==
  IF j <= Len(s) /\ s[j] = "}" THEN ParseOk(JObj(<<>>, <<>>), j + 1)
  ELSE parse_members(s, j, <<>>, <<>>)

\* after "["
array_at(s, j) ==
  IF j <= Len(s) /\ s[j] = "]" THEN ParseOk(JArr(<<>>), j + 1)
  ELSE parse_elements(s, j, <<>>)

\* after "-"
negated(r) ==
  IF r.ok /\ r.v.t = "int" THEN ParseOk(JInt(0 - r.v.n), r.i) ELSE ParseFail(r.i)

value_at(s, i) ==
  IF i > Len(s) THEN ParseFail(i)
  ELSE IF s[i] = "{" THEN object_at(s, SkipWs(s, i + 1))
  ELSE IF s[i] = "[" THEN array_at(s, SkipWs(s, i + 1))
  ELSE IF s[i] = QUOTE THEN scan_string(s, i + 1, <<>>)
  ELSE IF HasAt(s, i, K_null) THEN ParseOk(JNull, i + 4)
  ELSE IF HasAt(s, i, K_true) THEN ParseOk(JBool(TRUE), i + 4)
  ELSE IF HasAt(s, i, K_false) THEN ParseOk(JBool(FALSE), i + 5)
  ELSE IF IsDigit(s[i]) THEN scan_number(s, i)
  ELSE IF s[i] = "-" /\ i + 1 <= Len(s) /\ IsDigit(s[i + 1])
  THEN negated(scan_number(s, i + 1))
  ELSE ParseFail(i)

parse_value(s, i0) == value_at(s, SkipWs(s, i0))

\* the end of the text must follow the value
loads_end(s, r) ==
  IF r.ok /\ SkipWs(s, r.i) > Len(s) THEN r ELSE ParseFail(r.i)

json_loads(s) == loads_end(s, parse_value(s, 1))

(***************************************************************************)
(* Bounds of the model and constants of the program                        *)
(***************************************************************************)
\* tool invocations in one behaviour
MaxCalls == 3
\* characters in a requested filename
MaxNameLen == 3
\* what the clock can show: seconds after 2024-01-01T00:00:00
ClockReadings == {0, 1}
\* save_search_results calls suspended at their file write at one time
MaxInFlight == 1

\* records of the session whose average SpecAverage saves
MaxRecords == 8

MinRating == 1
MaxRating == 5

K_search_results_dir ==
  <<"s", "e", "a", "r", "c", "h", "_", "r", "e", "s", "u", "l", "t", "s">>
K_dot_json == <<".", "j", "s", "o", "n">>
K_search_results_ ==
  <<"s", "e", "a", "r", "c", "h", "_", "r", "e", "s", "u", "l", "t", "s", "_">>
K_search_ == <<"s", "e", "a", "r", "c", "h", "_">>
K_web == <<"w", "e", "b">>

(***************************************************************************)
(* The inputs the model draws                                              *)
(***************************************************************************)
Queries == {<<"a", "i">>}

\* hash(query) % 10000: fixed within one process
QueryHash(q) == IF q = <<"a", "i">> THEN 17 ELSE 4242

CountInputs == {1, 2}

ItemA ==
  JObj(<<K_title, K_url, K_description>>,
       <<JStr(<<"A", " ", QUOTE>>), JStr(<<"u", "/", BSLASH>>),
         JStr(<<EAcute, NL>>)>>)
\* an item without url and description
ItemB == JObj(<<K_title>>, <<JStr(<<"B">>)>>)
\* an item whose title is null
ItemNull == JObj(<<K_title>>, <<JNull>>)

\* an item whose title is shorter than the 30 characters a default filename
\* takes of it
ItemExample ==
  JObj(<<K_title>>,
       <<JStr(
         <<"E", "x", "a", "m", "p", "l", "e", " ", "R", "e", "s", "u", "l",
           "t", " ", "T", "i", "t", "l", "e", " ", "H", "e", "r", "e">>)>>)
\* an item whose title is longer
ItemLong ==
  JObj(<<K_title>>,
       <<JStr(
         <<"A", " ", "t", "i", "t", "l", "e", " ", "o", "f", " ", "m", "o",
           "r", "e", " ", "t", "h", "a", "n", " ", "3", "0", " ", "c", "h",
           "a", "r", "s", ":", " ", "c", "u", "t">>)>>)

ItemLists == {<<>>, <<ItemA>>, <<ItemB, ItemA>>, <<ItemNull>>}

WebBody(items) == JObj(<<K_web>>, <<JObj(<<K_results>>, <<JArr(items)>>)>>)

\* what the HTTP call yields: a status and, with 200, the parsed body
ProviderReplies ==
  {[status |-> 200, data |-> WebBody(items)] : items \in ItemLists}
    \cup {[status |-> 200, data |-> JObj(<<>>, <<>>)],
          [status |-> 500, data |-> JNull]}

IndexInputs == {0 - 1, 0, 1, 2}
RatingInputs == {MinRating - 1, 3, MaxRating, MaxRating + 1}
NoSuchSession == <<"n", "o", "s", "u", "c", "h">>

FilenameInputs == {{}, {<<".", ".", "/", "x", " ">>}}

(***************************************************************************)
(* State                                                                   *)
(***************************************************************************)
VARIABLES
  brave_api_key,    \* os.getenv("BRAVE_API_KEY"), an Optional[str]
  search_sessions,  \* session id -> the list of SearchResult
  files,            \* the file system: path -> text
  saving,           \* the save_search_results calls suspended at their write
  now,              \* the clock datetime.now() reads, in seconds
  response,         \* the last call and the dict it returned
  calls             \* tool invocations so far

vars == <<brave_api_key, search_sessions, files, saving, now, response, calls>>

(***************************************************************************)
(* datetime                                                                *)
(***************************************************************************)
TwoDigits(n) == <<Digit(n \div 10), Digit(n % 10)>>

\* datetime.now().strftime("%Y%m%d_%H%M%S")
strftime(t) ==
  <<"2", "0", "2", "4", "0", "1", "0", "1", "_">>
    \o TwoDigits(t \div 3600) \o TwoDigits((t \div 60) % 60) \o TwoDigits(t % 60)

\* datetime.now().isoformat()
isoformat(t) ==
  <<"2", "0", "2", "4", "-", "0", "1", "-", "0", "1", "T">>
    \o TwoDigits(t \div 3600) \o <<":">> \o TwoDigits((t \div 60) % 60)
    \o <<":">> \o TwoDigits(t % 60)

(***************************************************************************)
(* SearchResult                                                            *)
(***************************************************************************)
SearchResult(title, url, description) ==
  [title |-> title, url |-> url, description |-> description,
   rating |-> {}, rated_at |-> {}]

\* result.dict()
dict(r) ==
  JObj(<<K_title, K_url, K_description, K_rating, K_rated_at>>,
       <<JStr(r.title), JStr(r.url), JStr(r.description),
         OptInt(r.rating), OptStr(r.rated_at)>>)

\* a call's outcome: a value, or an exception
Return(v) == [raised |-> FALSE, value |-> v]
Raise(e) == [raised |-> TRUE, value |-> e]

\* obj.get(key, default) of the parsed JSON: AttributeError unless obj is a dict
py_get(obj, key, default) ==
  IF obj.t # "obj" THEN Raise("AttributeError")
  ELSE IF HasKey(obj, key) THEN Return(Lookup(obj, key))
  ELSE Return(default)

(***************************************************************************)
(* _search_brave                                                           *)
(***************************************************************************)
\* item.get(field, ""), which SearchResult requires to be a str
ItemField(item, field) == py_get(item, field, JStr(<<>>))

ItemValid(item) ==
  \A f \in {K_title, K_url, K_description} :
     ~ItemField(item, f).raised /\ ItemField(item, f).value.t = "str"

search_brave(reply) ==
  IF reply.status # 200 THEN Raise("HTTPStatusError")
  ELSE
    LET web == py_get(reply.data, K_web, JObj(<<>>, <<>>))
        res == IF web.raised THEN web
               ELSE py_get(web.value, K_results, JArr(<<>>))
    IN  IF res.raised THEN res
        ELSE IF res.value.t # "arr" THEN Raise("TypeError")
        ELSE IF \E i \in 1..Len(res.value.a) : ~ItemValid(res.value.a[i])
        THEN Raise("ValidationError")
        ELSE Return([i \in 1..Len(res.value.a) |->
               SearchResult(ItemField(res.value.a[i], K_title).value.s,
                            ItemField(res.value.a[i], K_url).value.s,
                            ItemField(res.value.a[i], K_description).value.s)])

(***************************************************************************)
(* The messages of the dicts the tools return, without their values filled  *)
(* in                                                                      *)
(***************************************************************************)
MsgNoKey ==
  "Brave API key not configured. Please set BRAVE_API_KEY environment variable."
MsgSearchFailed == "Search failed: {str(e)}"
MsgFound ==
  "Found {len(search_results)} results for '{query}'. Use the session_id to rate results or save them."
MsgSessionNotFound ==
  "Session ID '{search_session_id}' not found. Please perform a search first."
MsgIndexOutOfRange ==
  "Result index {result_index} is out of range. Available indices: 0-{len(...)-1}"
MsgInvalidRating == "Rating must be between 1 and 5 (1=worst, 5=best)"
MsgRated == "Rated result '{result.title}' with rating {rating}/5"
MsgSaved == "Search results saved successfully"
MsgSaveFailed == "Failed to save results: {str(e)}"
MsgListFailed == "Failed to list saved results: {str(e)}"

(***************************************************************************)
(* perform_web_search                                                      *)
(***************************************************************************)
\* f"search_{datetime.now().strftime('%Y%m%d_%H%M%S')}_{hash(query) % 10000}"
SessionId(t, query) ==
  K_search_ \o strftime(t) \o <<"_">> \o NatRepr(QueryHash(query))

\* the dict emptied before the key is set
Put_alone(d, key, value) == [k \in {key} |-> value]

\* d[key] = value
Put(d, key, value) ==
  [k \in (DOMAIN d) \cup {key} |-> IF k = key THEN value ELSE d[k]]

\* A suspended save holds the list object it read from the store. The list
\* stops being the session's list when a search binds the id to a new list.
Rebind(tasks, session_id) ==
  [k \in DOMAIN tasks |->
     IF tasks[k].session_id = session_id
     THEN [tasks[k] EXCEPT !.bound = FALSE] ELSE tasks[k]]

\* the dict perform_web_search returns when the provider answers reply
search_response(query, count, reply) ==
  IF brave_api_key = {} \/ brave_api_key = {<<>>}
  THEN [error |-> MsgNoKey, results |-> <<>>, session_id |-> {}]
  ELSE LET found == search_brave(reply)
       IN  IF found.raised
           THEN [error |-> MsgSearchFailed, results |-> <<>>, session_id |-> {}]
           ELSE [session_id |-> {SessionId(now, query)},
                 query |-> query,
                 results_count |-> Len(found.value),
                 results |-> [i \in 1..Len(found.value) |-> dict(found.value[i])],
                 message |-> MsgFound]

perform_web_search(query, count, reply) ==
  LET result == search_response(query, count, reply)
  IN  /\ response' = [op |-> "perform_web_search", result |-> result]
      /\ IF result.session_id = {}
         THEN UNCHANGED <<search_sessions, saving>>
         ELSE /\ search_sessions' =
                   Put(search_sessions, SessionId(now, query),
                       search_brave(reply).value)
              /\ saving' = Rebind(saving, SessionId(now, query))
      /\ calls' = calls + 1
      /\ UNCHANGED <<brave_api_key, files, now>>

(***************************************************************************)
(* rate_search_result                                                      *)
(***************************************************************************)
\* the rating set, the time of rating left as it was
apply_rating_only(results, result_index, rating, t) ==
  [results EXCEPT ![result_index + 1] = [@ EXCEPT !.rating = {rating}]]

\* the rating applied to every record of the list
apply_rating_all(results, result_index, rating, t) ==
  [i \in 1..Len(results) |->
     [results[i] EXCEPT !.rating = {rating}, !.rated_at = {isoformat(t)}]]

\* the list with the rating applied to the record at result_index
apply_rating(results, result_index, rating, t) ==
  [results EXCEPT ![result_index + 1] =
     [@ EXCEPT !.rating = {rating}, !.rated_at = {isoformat(t)}]]

\* the rating checked before the index
rate_response_rating_first(result_index, rating, search_session_id) ==
  IF search_session_id \notin DOMAIN search_sessions
  THEN [error |-> MsgSessionNotFound, success |-> FALSE]
  ELSE IF ~(MinRating <= rating /\ rating <= MaxRating)
  THEN [error |-> MsgInvalidRating, success |-> FALSE]
  ELSE IF ~(0 <= result_index
            /\ result_index < Len(search_sessions[search_session_id]))
  THEN [error |-> MsgIndexOutOfRange, success |-> FALSE]
  ELSE [success |-> TRUE,
        message |-> MsgRated,
        result_title |-> search_sessions[search_session_id][result_index + 1].title,
        rating |-> rating,
        rated_at |-> isoformat(now)]

\* the dict rate_search_result returns
rate_response(result_index, rating, search_session_id) ==
  IF search_session_id \notin DOMAIN search_sessions
  THEN [error |-> MsgSessionNotFound, success |-> FALSE]
  ELSE IF ~(0 <= result_index
            /\ result_index < Len(search_sessions[search_session_id]))
  THEN [error |-> MsgIndexOutOfRange, success |-> FALSE]
  ELSE IF ~(MinRating <= rating /\ rating <= MaxRating)
  THEN [error |-> MsgInvalidRating, success |-> FALSE]
  ELSE [success |-> TRUE,
        message |-> MsgRated,
        result_title |-> search_sessions[search_session_id][result_index + 1].title,
        rating |-> rating,
        rated_at |-> isoformat(now)]

\* the rating applied before it is checked
rate_applies_unchecked(result_index, rating, search_session_id) ==
  /\ search_session_id \in DOMAIN search_sessions
  /\ 0 <= result_index
  /\ result_index < Len(search_sessions[search_session_id])

\* whether rate_search_result reaches "Apply rating"
rate_applies(result_index, rating, search_session_id) ==
  rate_response(result_index, rating, search_session_id).success

rate_search_result(result_index, rating, search_session_id) ==
  /\ response' = [op |-> "rate_search_result",
                  result |-> rate_response(result_index, rating,
                                           search_session_id)]
  /\ IF rate_applies(result_index, rating, search_session_id)
     THEN /\ search_sessions' =
               [search_sessions EXCEPT ![search_session_id] =
                  apply_rating(@, result_index, rating, now)]
          /\ saving' =
               [k \in DOMAIN saving |->
                  IF saving[k].session_id = search_session_id /\ saving[k].bound
                  THEN [saving[k] EXCEPT !.results =
                          apply_rating(@, result_index, rating, now)]
                  ELSE saving[k]]
     ELSE UNCHANGED <<search_sessions, saving>>
  /\ calls' = calls + 1
  /\ UNCHANGED <<brave_api_key, files, now>>

(***************************************************************************)
(* save_search_results                                                     *)
(***************************************************************************)
\* dots and slashes kept as well
KeepChar_with_dots(c) == isalnum(c) \/ c \in {" ", "-", "_", ".", "/"}

KeepChar(c) == isalnum(c) \/ c \in {" ", "-", "_"}

\* str.rstrip()
RECURSIVE rstrip(_)
rstrip(s) ==
  IF s # <<>> /\ s[Len(s)] \in {" ", NL} THEN rstrip(SubSeq(s, 1, Len(s) - 1))
  ELSE s

\* the arguments of replace swapped: underscores made spaces
clean_filename_swapped(filename) ==
  [i \in 1..Len(rstrip(SelectSeq(filename, KeepChar))) |->
     IF rstrip(SelectSeq(filename, KeepChar))[i] = "_" THEN " "
     ELSE rstrip(SelectSeq(filename, KeepChar))[i]]

\* "".join(c for c in filename if c.isalnum() or c in (' ', '-', '_'))
\*    .rstrip(), then .replace(' ', '_')
clean_filename(filename) ==
  LET kept == rstrip(SelectSeq(filename, KeepChar))
  IN  [i \in 1..Len(kept) |-> IF kept[i] = " " THEN "_" ELSE kept[i]]

\* s[:n]
Take(s, n) == SubSeq(s, 1, IF Len(s) < n THEN Len(s) ELSE n)

\* the title taken whole
default_filename_untruncated(results, t) ==
  K_search_results_
    \o (IF results # <<>> THEN results[1].title ELSE K_unknown)
    \o <<"_">> \o strftime(t)

\* f"search_results_{query}_{timestamp}"
default_filename(results, t) ==
  K_search_results_
    \o (IF results # <<>> THEN Take(results[1].title, 30) ELSE K_unknown)
    \o <<"_">> \o strftime(t)

\* the name the file gets: the default when filename is None or empty
effective_filename(results, filename, t) ==
  clean_filename(IF filename = {} \/ filename = {<<>>}
                 THEN default_filename(results, t)
                 ELSE CHOOSE f \in filename : TRUE)

\* self.results_dir / name: pathlib drops the directory when name is absolute
PathJoin(dir, name) ==
  IF name # <<>> /\ name[1] = "/" THEN name ELSE dir \o <<"/">> \o name

IsRated(r) == r.rating # {}

RatingOf(r) == CHOOSE x \in r.rating : TRUE

RECURSIVE SumRatings(_)
SumRatings(rated) ==
  IF rated = <<>> THEN 0 ELSE RatingOf(Head(rated)) + SumRatings(Tail(rated))

\* the digits after the second cut off
round2_truncating(total, n) == (100 * total) \div n

\* round(total / n, 2), in hundredths: Python rounds a tie to the even digit
round2(total, n) ==
  LET q == (100 * total) \div n
      r == (100 * total) % n
  IN  IF 2 * r < n THEN q
      ELSE IF 2 * r > n THEN q + 1
      ELSE IF q % 2 = 0 THEN q ELSE q + 1

\* Optional[float], the float in hundredths
calculate_average_rating(results) ==
  LET rated_results == SelectSeq(results, IsRated)
  IN  IF rated_results = <<>> THEN {}
      ELSE {round2(SumRatings(rated_results), Len(rated_results))}

\* the float of h hundredths, as repr() writes it
FloatOfHundredths(h) ==
  JFloat(h \div 100,
         IF h % 10 = 0 THEN <<(h % 100) \div 10>>
         ELSE <<(h % 100) \div 10, h % 10>>)

OptFloat(o) ==
  IF o = {} THEN JNull ELSE FloatOfHundredths(CHOOSE x \in o : TRUE)

\* len([r for r in results if r.rating is not None])
rated_count(results) == Len(SelectSeq(results, IsRated))

save_data(search_session_id, results, t) ==
  JObj(<<K_metadata, K_results>>,
       <<JObj(<<K_session_id, K_saved_at, K_total_results, K_rated_results,
                K_average_rating>>,
              <<JStr(search_session_id), JStr(isoformat(t)), JInt(Len(results)),
                JInt(rated_count(results)),
                OptFloat(calculate_average_rating(results))>>),
         JArr([i \in 1..Len(results) |-> dict(results[i])])>>)

\* what is fixed when the call suspends at aiofiles.open: the list it read,
\* the path, and the data prepared for the file
save_task(search_session_id, filename) ==
  LET results == search_sessions[search_session_id]
      name == effective_filename(results, filename, now)
  IN  [session_id |-> search_session_id,
       results |-> results,
       bound |-> TRUE,
       filename |-> name,
       filepath |-> PathJoin(K_search_results_dir, name \o K_dot_json),
       save_data |-> save_data(search_session_id, results, now)]

\* the call up to its first suspension point
save_search_results(search_session_id, filename) ==
  /\ IF search_session_id \notin DOMAIN search_sessions
     THEN /\ response' =
               [op |-> "save_search_results",
                result |-> [error |-> MsgSessionNotFound, success |-> FALSE]]
          /\ UNCHANGED saving
     ELSE /\ Len(saving) < MaxInFlight
          /\ saving' = Append(saving, save_task(search_session_id, filename))
          /\ UNCHANGED response
  /\ calls' = calls + 1
  /\ UNCHANGED <<brave_api_key, search_sessions, files, now>>

\* the dict a resumed save returns
save_response(task, outcome) ==
  IF outcome = "written"
  THEN [success |-> TRUE,
        message |-> MsgSaved,
        filepath |-> task.filepath,
        filename |-> task.filename \o K_dot_json,
        results_saved |-> Len(task.results),
        rated_results |-> rated_count(task.results)]
  ELSE [error |-> MsgSaveFailed, success |-> FALSE]

\* the file system after the write: open(filepath, 'w') truncates the file,
\* f.write puts the text
save_files(task, outcome) ==
  IF outcome = "written" THEN Put(files, task.filepath, json_dumps(task.save_data))
  ELSE IF outcome = "write fails" THEN Put(files, task.filepath, <<>>)
  ELSE files

\* the rest of the call: the file is opened and written, or either fails
save_search_results_write(k) ==
  /\ k \in DOMAIN saving
  /\ \E outcome \in {"written", "open fails", "write fails"} :
       /\ files' = save_files(saving[k], outcome)
       /\ response' =
            [op |-> "save_search_results",
             result |-> save_response(saving[k], outcome)]
  /\ saving' = [i \in 1..(Len(saving) - 1) |->
                  IF i < k THEN saving[i] ELSE saving[i + 1]]
  /\ UNCHANGED <<brave_api_key, search_sessions, now, calls>>

(***************************************************************************)
(* list_saved_results                                                      *)
(***************************************************************************)
EndsWith(s, suffix) ==
  /\ Len(suffix) <= Len(s)
  /\ SubSeq(s, Len(s) - Len(suffix) + 1, Len(s)) = suffix

\* the name of a direct child of dir at this path, <<>> when it is none
ChildName(dir, path) ==
  LET n == Len(dir) + 1
  IN  IF /\ Len(path) > n
         /\ SubSeq(path, 1, n) = dir \o <<"/">>
         /\ \A i \in (n + 1)..Len(path) : path[i] # "/"
      THEN SubSeq(path, n + 1, Len(path))
      ELSE <<>>

\* self.results_dir.glob("*.json")
glob_json(fs) ==
  {path \in DOMAIN fs : EndsWith(ChildName(K_search_results_dir, path), K_dot_json)}

\* metadata.get(key, default), metadata a dict
MetaGet(metadata, key, default) == py_get(metadata, key, default).value

\* the entry appended for a file whose "metadata" is this value
entry_of(path, metadata) ==
  IF metadata.raised THEN metadata
  ELSE IF metadata.value.t # "obj" THEN Raise("AttributeError")
  ELSE Return(
    [filename |-> ChildName(K_search_results_dir, path),
     filepath |-> path,
     session_id |-> MetaGet(metadata.value, K_session_id, JStr(K_unknown)),
     saved_at |-> MetaGet(metadata.value, K_saved_at, JStr(K_unknown)),
     total_results |-> MetaGet(metadata.value, K_total_results, JInt(0)),
     rated_results |-> MetaGet(metadata.value, K_rated_results, JInt(0)),
     average_rating |-> MetaGet(metadata.value, K_average_rating, JInt(0))])

\* data.get("metadata", {}) of the parsed text
metadata_of(data) ==
  IF data.ok THEN py_get(data.v, K_metadata, JObj(<<>>, <<>>))
  ELSE Raise("JSONDecodeError")

\* the entry of one file, or the exception its reading raises
file_entry(fs, path) == entry_of(path, metadata_of(json_loads(fs[path])))

\* the files read in this order, the ones whose reading raises skipped
RECURSIVE read_files(_, _, _)
Appended(e) == IF e.raised THEN <<>> ELSE <<e.value>>

read_files(fs, order, i) ==
  IF i > Len(order) THEN <<>>
  ELSE Appended(file_entry(fs, order[i])) \o read_files(fs, order, i + 1)

IsNumber(v) == v.t \in {"int", "float", "bool"}

\* a number as <<integer part, fraction digits>>
NumParts(v) ==
  IF v.t = "int" THEN <<v.n, <<0>>>>
  ELSE IF v.t = "bool" THEN <<(IF v.b THEN 1 ELSE 0), <<0>>>>
  ELSE <<v.ip, v.fd>>

RECURSIVE DigitsLess(_, _, _)
DigitsLess(a, b, i) ==
  IF i > Len(b) THEN FALSE
  ELSE IF i > Len(a) THEN TRUE
  ELSE IF a[i] = b[i] THEN DigitsLess(a, b, i + 1)
  ELSE a[i] < b[i]

\* whether a < b is defined on two Python values read from JSON: two strings
\* or two numbers; None, dicts and values of different kinds have no order
\* (two lists, which Python orders element by element, are not among the
\* values the files drawn here hold)
Comparable(a, b) ==
  \/ a.t = "str" /\ b.t = "str"
  \/ IsNumber(a) /\ IsNumber(b)

\* a < b, for comparable a and b
py_less(a, b) ==
  IF a.t = "str" THEN StrLess(a.s, b.s)
  ELSE \/ NumParts(a)[1] < NumParts(b)[1]
       \/ /\ NumParts(a)[1] = NumParts(b)[1]
          /\ DigitsLess(NumParts(a)[2], NumParts(b)[2], 1)

\* the sort without reverse=True: e put before the first entry whose key is
\* greater
RECURSIVE insert_asc(_, _)
insert_asc(sorted, e) ==
  IF sorted = <<>> THEN <<e>>
  ELSE IF py_less(e.saved_at, Head(sorted).saved_at) THEN <<e>> \o sorted
  ELSE <<Head(sorted)>> \o insert_asc(Tail(sorted), e)

\* e put into a list already sorted: before the first entry whose key is less
RECURSIVE insert_desc(_, _)
insert_desc(sorted, e) ==
  IF sorted = <<>> THEN <<e>>
  ELSE IF py_less(Head(sorted).saved_at, e.saved_at) THEN <<e>> \o sorted
  ELSE <<Head(sorted)>> \o insert_desc(Tail(sorted), e)

RECURSIVE sort_from(_, _, _)
sort_from(entries, i, sorted) ==
  IF i > Len(entries) THEN sorted
  ELSE sort_from(entries, i + 1, insert_desc(sorted, entries[i]))

\* saved_files.sort(key=lambda x: x.get("saved_at", ""), reverse=True): a
\* stable sort, which raises TypeError when it compares two keys that have
\* no order
sort_saved_files(entries) ==
  IF \E i, j \in 1..Len(entries) :
        i # j /\ ~Comparable(entries[i].saved_at, entries[j].saved_at)
  THEN Raise("TypeError")
  ELSE Return(sort_from(entries, 1, <<>>))

\* the orders in which the directory can list the paths of S
Orders(S) ==
  {o \in [1..Cardinality(S) -> S] : \A i, j \in 1..Cardinality(S) : o[i] = o[j] => i = j}

\* the exception of the sort let through
list_result_raising(saved_files) ==
  IF saved_files.raised THEN saved_files
  ELSE [success |-> TRUE,
        total_files |-> Len(saved_files.value),
        files |-> saved_files.value]

\* the dict list_saved_results returns when the directory lists in this order
list_result(saved_files) ==
  IF saved_files.raised THEN [error |-> MsgListFailed, success |-> FALSE]
  ELSE [success |-> TRUE,
        total_files |-> Len(saved_files.value),
        files |-> saved_files.value]

list_response(fs, order) ==
  list_result(sort_saved_files(read_files(fs, order, 1)))

\* order: the order in which the directory lists its files
list_saved_results(order) ==
  /\ response' = [op |-> "list_saved_results",
                  result |-> list_response(files, order)]
  /\ calls' = calls + 1
  /\ UNCHANGED <<brave_api_key, search_sessions, files, saving, now>>

(***************************************************************************)
(* The clock and the specification                                         *)
(***************************************************************************)
\* datetime.now() reads the local wall clock, which is not monotonic: it runs
\* on, and it steps back when the clock is set or daylight saving time ends
Tick ==
  /\ \E t \in ClockReadings : t # now /\ now' = t
  /\ UNCHANGED <<brave_api_key, search_sessions, files, saving, response, calls>>

NoResponse == [op |-> "none"]

\* BraveSearchMCPServer(): an empty store; the key is set or not
Init ==
  /\ brave_api_key \in {{}, {<<"k">>}}
  /\ search_sessions = <<>>
  /\ files = <<>>
  /\ saving = <<>>
  /\ now = 0
  /\ response = NoResponse
  /\ calls = 0

SessionInputs == (DOMAIN search_sessions) \cup {NoSuchSession}

Search ==
  /\ calls < MaxCalls
  /\ \E query \in Queries, count \in CountInputs, reply \in ProviderReplies :
        perform_web_search(query, count, reply)

Rate ==
  /\ calls < MaxCalls
  /\ \E result_index \in IndexInputs, rating \in RatingInputs,
        search_session_id \in SessionInputs :
          rate_search_result(result_index, rating, search_session_id)

Save ==
  /\ calls < MaxCalls
  /\ \E search_session_id \in SessionInputs, filename \in FilenameInputs :
        save_search_results(search_session_id, filename)

SaveWrite == \E k \in DOMAIN saving : save_search_results_write(k)

List ==
  /\ calls < MaxCalls
  /\ \E order \in Orders(glob_json(files)) : list_saved_results(order)

Next == Search \/ Rate \/ Save \/ SaveWrite \/ List \/ Tick

Spec == Init /\ [][Next]_vars

(***************************************************************************)
(* SpecAverage: one save of a session of up to MaxRecords records, as a    *)
(* search and some ratings leave it                                        *)
(***************************************************************************)
RatedRecord(rating) ==
  [SearchResult(<<"B">>, <<>>, <<>>) EXCEPT
     !.rating = {rating}, !.rated_at = {isoformat(0)}]

\* a records rated x, then b records rated y, then c unrated records
SessionOf(a, x, b, y, c) ==
  [i \in 1..(a + b + c) |->
     IF i <= a THEN RatedRecord(x)
     ELSE IF i <= a + b THEN RatedRecord(y)
     ELSE SearchResult(<<"B">>, <<>>, <<>>)]

InitAverage ==
  /\ brave_api_key = {<<"k">>}
  /\ \E a, b, c \in 0..MaxRecords, x, y \in MinRating..MaxRating :
        /\ a + b + c <= MaxRecords
        /\ x < y
        /\ search_sessions =
             [sid \in {SessionId(0, <<"a", "i">>)} |-> SessionOf(a, x, b, y, c)]
  /\ files = <<>>
  /\ saving = <<>>
  /\ now = 0
  /\ response = NoResponse
  /\ calls = 0

SaveOnce ==
  /\ calls = 0
  /\ \E search_session_id \in DOMAIN search_sessions :
        save_search_results(search_session_id, {<<"a", "v", "g">>})

NextAverage == SaveOnce \/ SaveWrite

SpecAverage == InitAverage /\ [][NextAverage]_vars

(***************************************************************************)
(* SpecCatalog: the server started over a results directory that already   *)
(* holds files: artifacts of an earlier run, and files that are not        *)
(***************************************************************************)
CatalogPaths ==
  {PathJoin(K_search_results_dir, <<"a">> \o K_dot_json),
   PathJoin(K_search_results_dir, <<"b">> \o K_dot_json)}

\* what an earlier save of a session of one record wrote
ValidText ==
  json_dumps(save_data(SessionId(0, <<"a", "i">>),
                       <<SearchResult(<<"B">>, <<>>, <<>>)>>, 0))

\* a file whose "metadata" holds this "saved_at" and nothing else
MetadataText(saved_at) ==
  json_dumps(JObj(<<K_metadata>>, <<JObj(<<K_saved_at>>, <<saved_at>>)>>))

\* a valid artifact, a truncated one, and files whose metadata has a number
\* for saved_at, and no fields at all
CatalogTexts ==
  {ValidText,
   Take(ValidText, 12),
   MetadataText(JInt(5)),
   json_dumps(JObj(<<K_metadata>>, <<JObj(<<>>, <<>>)>>))}

InitCatalog ==
  /\ brave_api_key \in {{}, {<<"k">>}}
  /\ search_sessions = <<>>
  /\ \E S \in SUBSET CatalogPaths : files \in [S -> CatalogTexts]
  /\ saving = <<>>
  /\ now = 0
  /\ response = NoResponse
  /\ calls = 0

NextCatalog == Search \/ Rate \/ Save \/ SaveWrite \/ List

SpecCatalog == InitCatalog /\ [][NextCatalog]_vars

(***************************************************************************)
(* SpecSanitize: one save of a session under a requested filename          *)
(***************************************************************************)
NameChars == {"a", "1", " ", "-", "_", "/", BSLASH, "."}

RECURSIVE Names(_)
Names(n) ==
  IF n = 0 THEN {<<>>}
  ELSE Names(n - 1) \cup
         {Append(name, c) : name \in {m \in Names(n - 1) : Len(m) = n - 1},
                            c \in NameChars}

\* filename: Optional[str]
NameInputs == {{}} \cup {{name} : name \in Names(MaxNameLen)}

\* the session a search that found these items leaves
InitSanitize ==
  /\ brave_api_key = {<<"k">>}
  /\ \E items \in {<<>>, <<ItemA>>, <<ItemExample>>, <<ItemLong, ItemA>>} :
        search_sessions =
          [sid \in {SessionId(0, <<"a", "i">>)} |->
             search_brave([status |-> 200, data |-> WebBody(items)]).value]
  /\ files = <<>>
  /\ saving = <<>>
  /\ now = 0
  /\ response = NoResponse
  /\ calls = 0

SaveNamed ==
  /\ calls = 0
  /\ \E search_session_id \in DOMAIN search_sessions, filename \in NameInputs :
        save_search_results(search_session_id, filename)

NextSanitize == SaveNamed \/ SaveWrite

SpecSanitize == InitSanitize /\ [][NextSanitize]_vars

(***************************************************************************)
(* SpecListing: one listing of a results directory of up to three files    *)
(***************************************************************************)
ListingPaths ==
  {PathJoin(K_search_results_dir, <<c>> \o K_dot_json) : c \in {"a", "b", "c"}}

\* artifacts saved at the two clock readings, a file whose metadata has no
\* saved_at, and a truncated artifact
ListingTexts ==
  {json_dumps(save_data(SessionId(t, <<"a", "i">>),
                        <<SearchResult(<<"B">>, <<>>, <<>>)>>, t)) :
     t \in ClockReadings}
    \cup {json_dumps(JObj(<<K_metadata>>, <<JObj(<<>>, <<>>)>>)),
          Take(ValidText, 12)}

InitListing ==
  /\ brave_api_key = {<<"k">>}
  /\ search_sessions = <<>>
  /\ \E S \in SUBSET ListingPaths : files \in [S -> ListingTexts]
  /\ saving = <<>>
  /\ now \in ClockReadings
  /\ response = NoResponse
  /\ calls = 0

ListOnce ==
  /\ calls = 0
  /\ \E order \in Orders(glob_json(files)) : list_saved_results(order)

SpecListing == InitListing /\ [][ListOnce]_vars

(***************************************************************************)
(* Claims                                                                  *)
(***************************************************************************)
\* the error the claim's three checks, made in its order, give this call:
\* "" when all three pass
FirstFailingCheck(result_index, rating, search_session_id) ==
  IF search_session_id \notin DOMAIN search_sessions THEN MsgSessionNotFound
  ELSE IF result_index \notin 0..(Len(search_sessions[search_session_id]) - 1)
  THEN MsgIndexOutOfRange
  ELSE IF rating \notin 1..5 THEN MsgInvalidRating
  ELSE ""

\* C1: rate_search_result reports the first failing check of: the session id
\* is in the store, the index is in [0, len(session)-1], the rating is in
\* [1,5]; and it succeeds exactly when all three pass.
C1_FirstFailingCheckReported ==
  [][\A result_index \in IndexInputs, rating \in RatingInputs,
        search_session_id \in SessionInputs :
        rate_search_result(result_index, rating, search_session_id) =>
          LET expected ==
                FirstFailingCheck(result_index, rating, search_session_id)
          IN  /\ response'.result.success <=> expected = ""
              /\ ~response'.result.success =>
                    response'.result.error = expected]_vars

\* a rating call was refused for its index although the session exists
C1_Witness ==
  /\ response.op = "rate_search_result"
  /\ ~response.result.success
  /\ response.result.error = MsgIndexOutOfRange
  /\ search_sessions # <<>>

\* C2: a rate_search_result call that fails leaves every record of every
\* session as it was.
C2_FailedRatingMutatesNothing ==
  [][(/\ calls' = calls + 1
      /\ response'.op = "rate_search_result"
      /\ ~response'.result.success) => search_sessions' = search_sessions]_vars

\* a rating call was refused for its rating, on a session that has records
C2_Witness ==
  /\ response.op = "rate_search_result"
  /\ ~response.result.success
  /\ response.result.error = MsgInvalidRating
  /\ \E sid \in DOMAIN search_sessions : search_sessions[sid] # <<>>

\* C3: every record of every session has rating and rated_at both set or
\* both unset.
C3_RatingAndRatedAtTogether ==
  \A sid \in DOMAIN search_sessions :
    \A i \in 1..Len(search_sessions[sid]) :
      (search_sessions[sid][i].rating = {}) <=>
        (search_sessions[sid][i].rated_at = {})

\* a session holds a rated record beside an unrated one
C3_Witness ==
  \E sid \in DOMAIN search_sessions :
    \E i, j \in 1..Len(search_sessions[sid]) :
      /\ search_sessions[sid][i].rating # {}
      /\ search_sessions[sid][i].rated_at # {}
      /\ search_sessions[sid][j].rating = {}

\* the artifact at the path a successful save returned
SavedArtifact == json_loads(files[response.result.filepath])

SaveReturned == response.op = "save_search_results" /\ response.result.success

\* the ratings that are set, in the order of the records
RECURSIVE SetRatings(_, _)
SetRatings(results, i) ==
  IF i > Len(results) THEN <<>>
  ELSE (IF results[i].rating = {} THEN <<>>
        ELSE <<CHOOSE r \in results[i].rating : TRUE>>)
         \o SetRatings(results, i + 1)

RECURSIVE Total(_)
Total(ns) == IF ns = <<>> THEN 0 ELSE Head(ns) + Total(Tail(ns))

\* a float of at most two decimals, in hundredths
Hundredths(v) ==
  100 * v.ip + 10 * v.fd[1] + (IF Len(v.fd) > 1 THEN v.fd[2] ELSE 0)

\* v is the mean of ns to the nearest hundredth
IsMeanTo2Decimals(v, ns) ==
  /\ v.t = "float"
  /\ Len(v.fd) <= 2
  /\ LET d == Hundredths(v) * Len(ns) - 100 * Total(ns)
     IN  2 * d <= Len(ns) /\ 2 * (0 - d) <= Len(ns)

\* C4: the average_rating of the saved metadata is the mean of the set
\* ratings of the session, rounded to 2 decimals, and null when no record is
\* rated; ratings 5 and 3 on two records give 4.0, rated_results 2 and
\* total_results 2.
C4_AverageIsRoundedMean ==
  SaveReturned =>
    LET metadata == Lookup(SavedArtifact.v, K_metadata)
        session == search_sessions[Lookup(metadata, K_session_id).s]
        ratings == SetRatings(session, 1)
        average == Lookup(metadata, K_average_rating)
    IN  /\ ratings = <<>> => average = JNull
        /\ ratings # <<>> => IsMeanTo2Decimals(average, ratings)
        /\ (Len(session) = 2 /\ ratings = <<3, 5>>) =>
              /\ average = JFloat(4, <<0>>)
              /\ Lookup(metadata, K_rated_results) = JInt(2)
              /\ Lookup(metadata, K_total_results) = JInt(2)

\* two records rated 3 and 5 were saved with the average 4.0
C4_Witness ==
  /\ SaveReturned
  /\ \E sid \in DOMAIN search_sessions :
        /\ Len(search_sessions[sid]) = 2
        /\ SetRatings(search_sessions[sid], 1) = <<3, 5>>
  /\ Lookup(Lookup(SavedArtifact.v, K_metadata), K_average_rating) = JFloat(4, <<0>>)

\* the Optional a parsed JSON value stands for
OptOfInt(v) == IF v = JNull THEN {} ELSE {v.n}
OptOfStr(v) == IF v = JNull THEN {} ELSE {v.s}

\* the record a parsed element of "results" holds, field for field
ParsedRecord(o) ==
  [title |-> Lookup(o, K_title).s,
   url |-> Lookup(o, K_url).s,
   description |-> Lookup(o, K_description).s,
   rating |-> OptOfInt(Lookup(o, K_rating)),
   rated_at |-> OptOfStr(Lookup(o, K_rated_at))]

ParsedRecords(arr) == [i \in 1..Len(arr.a) |-> ParsedRecord(arr.a[i])]

HasRecordFields(arr) ==
  \A i \in 1..Len(arr.a) :
     arr.a[i].k = <<K_title, K_url, K_description, K_rating, K_rated_at>>

\* the "results" of a parsed artifact, none when the text did not parse or
\* has no "results"
ResultsOf(parsed) ==
  IF parsed.ok /\ parsed.v.t = "obj" /\ HasKey(parsed.v, K_results)
  THEN {Lookup(parsed.v, K_results)}
  ELSE {}

\* the records a suspended save will write
Prepared(task) == Lookup(task.save_data, K_results)

\* C5: parsing the artifact a successful save wrote yields a results array
\* identical, field for field and in order, to the session's records at
\* save time (the time the save read the session, which is the artifact's
\* saved_at). In three parts: what a save prepares is the session as it is
\* then; what is prepared does not change while the save is suspended; the
\* text written parses back to what was prepared.
C5_RoundTrip ==
  [][/\ \A search_session_id \in SessionInputs, filename \in FilenameInputs :
          (/\ Len(saving') > Len(saving)
           /\ save_search_results(search_session_id, filename)) =>
             /\ HasRecordFields(Prepared(saving'[Len(saving')]))
             /\ ParsedRecords(Prepared(saving'[Len(saving')])) =
                  search_sessions[search_session_id]
     /\ \A i \in DOMAIN saving' :
          \/ i = Len(saving') /\ Len(saving') > Len(saving)
          \/ \E j \in DOMAIN saving :
               /\ saving'[i].save_data = saving[j].save_data
               /\ saving'[i].filepath = saving[j].filepath
     /\ \A k \in DOMAIN saving :
          (/\ Len(saving') < Len(saving)
           /\ response'.result.success
           /\ save_search_results_write(k)) =>
             \A text \in {files'[saving[k].filepath]} :
                \A parsed \in {json_loads(text)} :
                   ResultsOf(parsed) = {Prepared(saving[k])}]_vars

\* a saved artifact holds a rated record and an unrated one, and a title
\* with a quote in it
C5_Witness ==
  /\ SaveReturned
  /\ SavedArtifact.ok
  /\ LET records == ParsedRecords(Lookup(SavedArtifact.v, K_results))
     IN  /\ \E i \in 1..Len(records) : records[i].rating # {}
         /\ \E i \in 1..Len(records) : records[i].rating = {}
         /\ \E i \in 1..Len(records) :
              \E c \in 1..Len(records[i].title) : records[i].title[c] = QUOTE

\* the operation did not do what it was called for: a search that made no
\* session, or another operation that does not report success
Failed ==
  /\ response.op # "none"
  /\ IF response.op = "perform_web_search"
     THEN response.result.session_id = {}
     ELSE ~("success" \in DOMAIN response.result /\ response.result.success)

\* C6 as stated: every failure of any of the four operations carries an
\* error message and a success flag.
C6_FailureCarriesErrorAndFlag ==
  Failed =>
    /\ "error" \in DOMAIN response.result
    /\ "success" \in DOMAIN response.result

\* C6: every failure of the four operations is returned as a dict that
\* carries an error message, and no exception is returned in its place; a
\* failed rate_search_result, save_search_results or list_saved_results
\* also carries success = False, and a failed perform_web_search carries no
\* success flag: it carries an empty results list and a session_id of None.
C6_FailureIsStructured ==
  Failed =>
    /\ "raised" \notin DOMAIN response.result
    /\ "error" \in DOMAIN response.result
    /\ IF response.op = "perform_web_search"
       THEN /\ "success" \notin DOMAIN response.result
            /\ response.result.results = <<>>
       ELSE /\ "success" \in DOMAIN response.result
            /\ response.result.success = FALSE

\* the listing failed on what the files hold, and the failure is a dict
C6_Witness ==
  /\ Failed
  /\ response.op = "list_saved_results"
  /\ response.result.error = MsgListFailed

\* the items of a provider reply that has them
ProviderItems(reply) == Lookup(Lookup(reply.data, K_web), K_results).a

\* C7: a successful search returns exactly count records whenever the
\* provider returns at least count items, and the records are in provider
\* order.
C7_ExactlyCountRecords ==
  [][\A query \in Queries, count \in CountInputs, reply \in ProviderReplies :
       (/\ perform_web_search(query, count, reply)
        /\ response'.result.session_id # {}
        /\ HasKey(reply.data, K_web)
        /\ Len(ProviderItems(reply)) >= count) =>
          /\ response'.result.results_count = count
          /\ Len(response'.result.results) = count
          /\ \A i \in 1..count :
               Lookup(response'.result.results[i], K_title) =
                 Lookup(ProviderItems(reply)[i], K_title)]_vars

\* C8: list_saved_results does not fail because of what the files in the
\* results directory hold: it returns success, with one entry for each file
\* that parses and none for the others.
C8_ListingSurvivesFileContents ==
  [][\A order \in Orders(glob_json(files)) :
       list_saved_results(order) =>
          /\ response'.result.success
          /\ {response'.result.files[i].filepath :
                i \in 1..Len(response'.result.files)} =
               {path \in glob_json(files) : json_loads(files[path]).ok}]_vars

\* the number of elements of a parsed "results" array whose rating is set
RatedIn(arr) ==
  Cardinality({i \in 1..Len(arr.a) : Lookup(arr.a[i], K_rating) # JNull})

\* C9: everything a save reports reflects one state of the session: the
\* artifact's results, its metadata counts and the results_saved and
\* rated_results returned to the caller agree with each other.
C9_SaveReportsOneState ==
  SaveReturned =>
    LET metadata == Lookup(SavedArtifact.v, K_metadata)
        results == Lookup(SavedArtifact.v, K_results)
    IN  /\ Lookup(metadata, K_total_results) = JInt(Len(results.a))
        /\ Lookup(metadata, K_rated_results) = JInt(RatedIn(results))
        /\ response.result.results_saved = Len(results.a)
        /\ response.result.rated_results = RatedIn(results)

SafeName(name) ==
  \A i \in 1..Len(name) : isalnum(name[i]) \/ name[i] \in {"-", "_"}

\* path is <results directory>/<name>.json for a name of safe characters
SafeChild(path) ==
  \E n \in 0..Len(path) :
     /\ SafeName(SubSeq(path, Len(K_search_results_dir) + 2, n))
     /\ path = K_search_results_dir \o <<"/">>
                 \o SubSeq(path, Len(K_search_results_dir) + 2, n)
                 \o K_dot_json

\* C10: whatever filename is requested, the sanitized name holds only
\* alphanumeric characters, hyphens and underscores, and the file is opened
\* and written as <results directory>/<sanitized name>.json, a direct child
\* of the results directory.
C10_SanitizedNameStaysInDirectory ==
  /\ \A k \in DOMAIN saving :
        /\ SafeName(saving[k].filename)
        /\ saving[k].filepath =
             K_search_results_dir \o <<"/">> \o saving[k].filename \o K_dot_json
  /\ \A path \in DOMAIN files : SafeChild(path)
  /\ SaveReturned => SafeChild(response.result.filepath)

\* a file was written for a request that sanitization emptied: a request
\* of dots, slashes and spaces only
C10_Witness ==
  /\ SaveReturned
  /\ response.result.filepath = K_search_results_dir \o <<"/">> \o K_dot_json
  /\ response.result.filepath \in DOMAIN files

\* C11: sanitization is idempotent: the name a save sanitized, sanitized
\* again, is the same name.
C11_SanitizeIdempotent ==
  \A k \in DOMAIN saving :
     clean_filename(saving[k].filename) = saving[k].filename

\* a save is suspended whose name is the sanitized default of a session
\* whose first title has a space and a quote: the space became an
\* underscore and the quote was dropped
C11_Witness ==
  \E k \in DOMAIN saving :
     /\ saving[k].results # <<>>
     /\ saving[k].filename =
          K_search_results_ \o <<"A", "_", "_">> \o strftime(0)

\* the one element of a set of one
TheOne(S) == CHOOSE x \in S : TRUE

\* C12: a successful rating of a record that is already rated leaves the
\* record with the new rating and with a rated_at that is not earlier than
\* the rated_at it had.
C12_SecondRatingNotEarlier ==
  [][\A result_index \in IndexInputs, rating \in RatingInputs,
        search_session_id \in SessionInputs :
       (/\ rate_search_result(result_index, rating, search_session_id)
        /\ response'.result.success
        /\ search_sessions[search_session_id][result_index + 1].rating # {}) =>
          /\ search_sessions'[search_session_id][result_index + 1].rating =
               {rating}
          /\ ~StrLess(
               TheOne(search_sessions'[search_session_id][result_index + 1].rated_at),
               TheOne(search_sessions[search_session_id][result_index + 1].rated_at))]_vars

\* the listing returned
Listed == response.op = "list_saved_results" /\ response.result.success

\* C13: the entries of a listing are newest saved_at first: each entry's
\* saved_at, as a string, is greater than or equal to that of the entry
\* after it; and an entry whose file's metadata has no saved_at carries
\* "unknown".
C13_NewestFirst ==
  Listed =>
    /\ \A i \in 1..(Len(response.result.files) - 1) :
          ~StrLess(response.result.files[i].saved_at.s,
                   response.result.files[i + 1].saved_at.s)
    /\ \A i \in 1..Len(response.result.files) :
          \A metadata \in
               {Lookup(json_loads(files[response.result.files[i].filepath]).v,
                       K_metadata)} :
             response.result.files[i].saved_at =
               IF HasKey(metadata, K_saved_at)
               THEN Lookup(metadata, K_saved_at)
               ELSE JStr(K_unknown)

\* three entries listed: "unknown", then the later artifact, then the earlier
C13_Witness ==
  /\ Listed
  /\ [i \in 1..Len(response.result.files) |->
        response.result.files[i].saved_at] =
       <<JStr(K_unknown), JStr(isoformat(1)), JStr(isoformat(0))>>

\* a name with the characters that are not letters, digits, spaces, hyphens
\* or underscores dropped, and its spaces made underscores
Sanitized(name) ==
  LET kept == SelectSeq(name, LAMBDA c : isalnum(c) \/ c \in {" ", "-", "_"})
  IN  [i \in 1..Len(kept) |-> IF kept[i] = " " THEN "_" ELSE kept[i]]

\* the first 30 characters of the first title, "unknown" for no record
Derived(results) ==
  IF results = <<>> THEN K_unknown
  ELSE [i \in 1..(IF Len(results[1].title) < 30 THEN Len(results[1].title)
                  ELSE 30) |-> results[1].title[i]]

\* YYYYMMDD_HHMMSS at 2024-01-01T00:00:00
StampAtZero ==
  <<"2", "0", "2", "4", "0", "1", "0", "1", "_", "0", "0", "0", "0", "0", "0">>

ExampleName ==
  <<"s", "e", "a", "r", "c", "h", "_", "r", "e", "s", "u", "l", "t", "s",
    "_", "E", "x", "a", "m", "p", "l", "e", "_", "R", "e", "s", "u", "l",
    "t", "_", "T", "i", "t", "l", "e", "_", "H", "e", "r", "e", "_", "2",
    "0", "2", "4", "0", "1", "0", "1", "_", "0", "0", "0", "0", "0", "0">>

C15_RateChangesOneRecord ==
  [][\A result_index \in IndexInputs, rating \in RatingInputs,
        search_session_id \in SessionInputs :
       (/\ rate_search_result(result_index, rating, search_session_id)
        /\ response'.result.success) =>
          /\ DOMAIN search_sessions' = DOMAIN search_sessions
          /\ \A sid \in DOMAIN search_sessions :
                sid # search_session_id =>
                  search_sessions'[sid] = search_sessions[sid]
          /\ Len(search_sessions'[search_session_id]) =
               Len(search_sessions[search_session_id])
          /\ \A i \in 1..Len(search_sessions[search_session_id]) :
                IF i = result_index + 1
                THEN /\ search_sessions'[search_session_id][i].title =
                          search_sessions[search_session_id][i].title
                     /\ search_sessions'[search_session_id][i].url =
                          search_sessions[search_session_id][i].url
                     /\ search_sessions'[search_session_id][i].description =
                          search_sessions[search_session_id][i].description
                     /\ search_sessions'[search_session_id][i].rating = {rating}
                ELSE search_sessions'[search_session_id][i] =
                       search_sessions[search_session_id][i]
          /\ files' = files
          /\ response'.result.result_title =
               search_sessions[search_session_id][result_index + 1].title
          /\ response'.result.rating = rating]_vars

\* a record was rated in a store of two sessions, and the other record of
\* its session is unrated
C15_Witness ==
  /\ response.op = "rate_search_result"
  /\ response.result.success
  /\ Cardinality(DOMAIN search_sessions) = 2
  /\ \E sid \in DOMAIN search_sessions :
        /\ Len(search_sessions[sid]) = 2
        /\ \E i, j \in 1..2 :
              /\ search_sessions[sid][i].rating = {response.result.rating}
              /\ search_sessions[sid][j].rating = {}

\* the store but for the session of this id
Others(store, session_id) ==
  [sid \in (DOMAIN store) \ session_id |-> store[sid]]

\* C16: the session store changes only through a successful search, which
\* inserts or overwrites exactly one session, and a successful rate: a
\* failed search, a save at either of its steps and whatever its outcome,
\* and a listing leave it as it was; and no step removes a session.
C16_StoreChangesOnlyBySearchAndRate ==
  [][/\ DOMAIN search_sessions \subseteq DOMAIN search_sessions'
     /\ \A query \in Queries, count \in CountInputs, reply \in ProviderReplies :
          (/\ calls' = calls + 1
           /\ response'.op = "perform_web_search"
           /\ perform_web_search(query, count, reply)) =>
            IF response'.result.session_id = {}
            THEN search_sessions' = search_sessions
            ELSE /\ DOMAIN search_sessions' =
                      (DOMAIN search_sessions) \cup response'.result.session_id
                 /\ Others(search_sessions', response'.result.session_id) =
                      Others(search_sessions, response'.result.session_id)
     /\ \A search_session_id \in SessionInputs, filename \in FilenameInputs :
          (calls' = calls + 1 /\ save_search_results(search_session_id, filename))
            => search_sessions' = search_sessions
     /\ \A k \in DOMAIN saving :
          (Len(saving') < Len(saving) /\ save_search_results_write(k))
            => search_sessions' = search_sessions
     /\ (response'.op = "list_saved_results" /\ calls' = calls + 1) =>
          \A order \in Orders(glob_json(files)) :
             list_saved_results(order) => search_sessions' = search_sessions
     /\ search_sessions' # search_sessions =>
          /\ calls' = calls + 1
          /\ \/ /\ response'.op = "perform_web_search"
                /\ response'.result.session_id # {}
             \/ /\ response'.op = "rate_search_result"
                /\ response'.result.success]_vars

\* a search failed on a store that holds a session with a rated record
C16_Witness ==
  /\ response.op = "perform_web_search"
  /\ response.result.session_id = {}
  /\ \E sid \in DOMAIN search_sessions :
        \E i \in 1..Len(search_sessions[sid]) :
           search_sessions[sid][i].rating # {}
====
